---- MODULE Spec2Model ----
(***************************************************************************)
(* Reading-difficulty detection pipeline.                                  *)
(*                                                                         *)
(*   ReadingDifficultyDetector  src/src/models/reading_detector.py         *)
(*   DataLogger                 src/src/utils/data_logger.py               *)
(*                                                                         *)
(* Units.  Real-valued quantities are kept in fixed point so that the      *)
(* threshold comparisons of the source stay exact:                         *)
(*   scores        hundredths          (0.25 -> 25, 1.0 -> 100)            *)
(*   avg_ear       thousandths         (0.15 -> 150, 0.2 -> 200)           *)
(*   pitch         tenths of a degree  (-15 -> -150, -8 -> -80)            *)
(*   variances     exact fractions     [num |-> n, den |-> d], d > 0       *)
(*   averages      exact fractions     [num |-> n, den |-> d], d > 0       *)
(* Wall-clock values (fps, timestamps, durations) are not modelled.        *)
(***************************************************************************)
EXTENDS Integers, Sequences, FiniteSets, TLC

VARIABLES
    \* ---- scoring of one feature map (SpecScore)
    sc_input,           \* what landmark/feature/temporal extraction produced
    sc_result,          \* what predict_reading_difficulty returned for it
    \* ---- ReadingDifficultyDetector (Spec)
    scenario,           \* which frame stream the camera delivers
    feature_history,    \* self.feature_history
    pushed,             \* every feature vector appended since construction/reset
    lastOp,             \* "init" | "predict" | "reset"
    lastFrame,          \* the frame of the last predict call
    out,                \* what the last predict call returned
    det_session,        \* the application's detection session, as the detector meets it
    \* ---- DataLogger (SpecLogger)
    current_sessions,   \* self.current_sessions: active id -> session_data
    session_files,      \* session_<id>.json: id -> sequence of records written
    next_id,            \* next fresh session id (uuid4 prefix)
    write_attempts,     \* id -> number of times the record write was attempted
    ended,              \* ids on which end_session ran to completion
    logged,             \* active id -> the (score, features) pairs logged
    lastCall,           \* the last DataLogger call and what it did
    \* ---- ReadingDifficultyApp: video thread and GUI thread (SpecApp)
    is_analyzing,       \* self.is_analyzing
    current_session,    \* self.current_session; 0 is None
    detection_history,  \* self.detection_history: numbers of the frames processed
    app_sessions,       \* data_logger.current_sessions: id -> 'detections' list
    app_files,          \* session_<id>.json: id -> sequence of records written
    app_next_id,        \* next fresh session id
    frame_no,           \* number of the frame process_frame is working on
    vpc,                \* video thread: position in update_video_feed
    v_sid,              \* video thread: session_id parameter of log_detection
    gpc,                \* GUI thread: position in start_/stop_detection
    g_sid,              \* GUI thread: session_id parameter of end_session
    g_detections,       \* GUI thread: local 'detections' of end_session
    g_total,            \* GUI thread: total_detections computed by end_session
    \* ---- VideoProcessor: capture thread, caller, consumer (SpecVideo)
    cap,                \* self.cap: "none" (None) | "open"
    is_running,         \* self.is_running
    current_frame,      \* self.current_frame: the latest-frame store
    frame_lock,         \* self.frame_lock: "free" | "capture" | "consumer"
    cpc,                \* capture thread: position in _capture_loop
    consecutive_failures, \* local of _capture_loop
    processed_frame,    \* local of _capture_loop: number of the frame read
    next_frame,         \* number of the next frame the camera delivers
    failed_in_a_row,    \* this run of the loop: failed reads since the last good one
    was_reset,          \* this run of the loop: a good read followed failed ones
    exit_reason,        \* why the loop last ended: "none" | "condition" | "failures"
    after_stop,         \* frames published since is_running was last cleared
    mpc,                \* caller thread: position in stop_capture
    join_timed_out,     \* the last join returned with the loop still alive
    upc,                \* consumer thread: position in get_current_frame
    got,                \* consumer thread: the frame get_current_frame returned
    seen,               \* numbers of the frames the consumer was handed
    \* ---- VideoProcessor start/stop life cycle (SpecLifecycle)
    devices,            \* the camera indices that cv2.VideoCapture can open
    camera_id,          \* self.camera_id
    lc_cap,             \* self.cap: 0 is None, else the number of a handle
    lc_running,         \* self.is_running
    handles,            \* the VideoCapture objects opened so far
    loops,              \* the _capture_loop threads started so far
    lc_mpc,             \* caller thread: position in stop_capture
    last_start,         \* the last start_capture call and what it returned
    \* ---- _calculate_ear on one eye (SpecEar)
    eye_points,         \* the argument: the landmark points of one eye
    ear_ret             \* what _calculate_ear returned for it

scVars  == <<sc_input, sc_result>>
detVars == <<scenario, feature_history, pushed, lastOp, lastFrame, out,
             det_session>>
logVars == <<current_sessions, session_files, next_id, write_attempts, ended,
             logged, lastCall>>
appVars == <<is_analyzing, current_session, detection_history, app_sessions,
             app_files, app_next_id, frame_no, vpc, v_sid, gpc, g_sid,
             g_detections, g_total>>
vidVars == <<cap, is_running, current_frame, frame_lock, cpc,
             consecutive_failures, processed_frame, next_frame,
             failed_in_a_row, was_reset, exit_reason, after_stop, mpc,
             join_timed_out, upc, got, seen>>
lcVars  == <<devices, camera_id, lc_cap, lc_running, handles, loops, lc_mpc,
             last_start>>
earVars == <<eye_points, ear_ret>>
vars    == <<scVars, detVars, logVars, appVars, vidVars, lcVars, earVars>>

----------------------------------------------------------------------------
(* Arithmetic helpers *)

Min2(a, b) == IF a < b THEN a ELSE b

Frac(n, d) == [num |-> n, den |-> d]

\* v > k and v < k for an exact fraction v with positive denominator
FracGT(v, k) == v.num > k * v.den

----------------------------------------------------------------------------
(* Scoring constants: reading_detector.py lines 220-270 *)

BlinkVeryLow   == 8
BlinkLow       == 12
BlinkHigh      == 25
BlinkDefault   == 15
StabilityHigh  == 2000
StabilityMid   == 1000
ChangesHigh    == 80
ChangesMid     == 50
PitchSteep     == -150
PitchMild      == -80
EarClosed      == 150
EarNarrow      == 200
EarDefault     == 300
ScoreCap       == 100

W_BlinkVeryLow == 25
W_BlinkLow     == 10
W_BlinkHigh    == 15
W_StabHigh     == 30
W_StabMid      == 15
W_ChangesHigh  == 25
W_ChangesMid   == 10
W_PitchSteep   == 15
W_PitchMild    == 5
W_EarClosed    == 15
W_EarNarrow    == 5
W_BasicEarClosed == 30
W_BasicEarNarrow == 10
W_BasicPitch   == 20

----------------------------------------------------------------------------
(* Temporal features: the (possibly empty) dict of extract_temporal_features *)

NoTemporal ==
    [present |-> FALSE, blink_rate |-> BlinkDefault,
     gaze_stability_x |-> Frac(0, 1), gaze_direction_changes |-> 0]

\* _calculate_rule_based_score: the score is accumulated ladder by ladder
calculate_rule_based_score_capless(f) ==
    LET s0 == 0
        s1 == IF f.blink_rate < BlinkVeryLow THEN s0 + W_BlinkVeryLow
              ELSE IF f.blink_rate < BlinkLow THEN s0 + W_BlinkLow
              ELSE IF f.blink_rate > BlinkHigh THEN s0 + W_BlinkHigh
              ELSE s0
        s2 == IF FracGT(f.gaze_stability_x, StabilityHigh) THEN s1 + W_StabHigh
              ELSE IF FracGT(f.gaze_stability_x, StabilityMid) THEN s1 + W_StabMid
              ELSE s1
        s3 == IF f.gaze_direction_changes > ChangesHigh THEN s2 + W_ChangesHigh
              ELSE IF f.gaze_direction_changes > ChangesMid THEN s2 + W_ChangesMid
              ELSE s2
        s4 == IF f.pitch < PitchSteep THEN s3 + W_PitchSteep
              ELSE IF f.pitch < PitchMild THEN s3 + W_PitchMild
              ELSE s3
        s5 == IF f.avg_ear < EarClosed THEN s4 + W_EarClosed
              ELSE IF f.avg_ear < EarNarrow THEN s4 + W_EarNarrow
              ELSE s4
    IN  s5

\* variant: the sum returned without min(score, 1.0)
calculate_rule_based_score_nocap(f) == calculate_rule_based_score_capless(f)

\* variant: the first blink comparison taken as <= instead of <
calculate_rule_based_score_looseblink(f) ==
    Min2(calculate_rule_based_score_capless(
            [f EXCEPT !.blink_rate = IF @ = BlinkVeryLow THEN @ - 1 ELSE @]),
         ScoreCap)

\* _calculate_rule_based_score
calculate_rule_based_score(f) ==
    Min2(calculate_rule_based_score_capless(f), ScoreCap)

\* variant: the pitch rule of basic mode firing at -8 instead of -15
calculate_basic_score_pitchmild(f) ==
    LET s1 == IF f.avg_ear < EarClosed THEN W_BasicEarClosed
              ELSE IF f.avg_ear < EarNarrow THEN W_BasicEarNarrow
              ELSE 0
        s2 == IF f.pitch < PitchMild THEN s1 + W_BasicPitch ELSE s1
    IN  Min2(s2, ScoreCap)

\* _calculate_basic_score
calculate_basic_score(f) ==
    LET s0 == 0
        s1 == IF f.avg_ear < EarClosed THEN s0 + W_BasicEarClosed
              ELSE IF f.avg_ear < EarNarrow THEN s0 + W_BasicEarNarrow
              ELSE s0
        s2 == IF f.pitch < PitchSteep THEN s1 + W_BasicPitch ELSE s1
    IN  Min2(s2, ScoreCap)

\* predict_reading_difficulty, lines 210-218: all_features merges the current
\* vector with the temporal dict; a non-empty temporal dict selects the ladder.
score_features(current, temporal) ==
    LET all_features ==
            [avg_ear |-> current.avg_ear, pitch |-> current.pitch,
             blink_rate |-> temporal.blink_rate,
             gaze_stability_x |-> temporal.gaze_stability_x,
             gaze_direction_changes |-> temporal.gaze_direction_changes]
    IN  IF temporal.present
        THEN [mode |-> "rule",  score |-> calculate_rule_based_score(all_features)]
        ELSE [mode |-> "basic", score |-> calculate_basic_score(current)]

\* predict_reading_difficulty, lines 192-195
NoFaceResult == [mode |-> "noface", score |-> 0]

----------------------------------------------------------------------------
(* ReadingDifficultyDetector: feature history and temporal features *)

max_history     == 300
MinSamples      == 30
RecentWindow    == 300
blink_threshold == 200

\* Bound of the model: face frames pushed between two resets.
MaxPushes == 303

Sign(x) == IF x > 0 THEN 1 ELSE IF x < 0 THEN -1 ELSE 0

\* list[-k:]
LastK(s, k) ==
    IF Len(s) <= k THEN s ELSE SubSeq(s, Len(s) - k + 1, Len(s))

\* sum of f[lo..hi], by halves (integer addition is associative)
RECURSIVE SumRange(_, _, _)
SumRange(f, lo, hi) ==
    IF lo > hi THEN 0
    ELSE IF lo = hi THEN f[lo]
    ELSE LET mid == (lo + hi) \div 2
         IN  SumRange(f, lo, mid) + SumRange(f, mid + 1, hi)

\* sum of f[1..n]
SumTo(f, n) == SumRange(f, 1, n)

\* df['gaze_x'].var(): the sample variance (ddof = 1) of n >= 2 values,
\* (n * sum(x^2) - sum(x)^2) / (n * (n - 1))
SampleVariance(x) ==
    LET n  == Len(x)
        sq == [i \in 1..n |-> x[i] * x[i]]
        s1 == SumTo(x, n)
        s2 == SumTo(sq, n)
    IN  Frac(n * s2 - s1 * s1, n * (n - 1))

\* np.sum(np.diff(np.sign(gaze_diff_x.values)) != 0)
DirectionChanges(x) ==
    LET n == Len(x)
        d == [i \in 1..(n - 1) |-> x[i + 1] - x[i]]
    IN  Cardinality({i \in 1..(n - 2) : Sign(d[i + 1]) - Sign(d[i]) # 0})

\* blinks = (avg_ear < blink_threshold).astype(int);
\* variant: the blink count reported without the factor 2
BlinkRate_undoubled(ear) ==
    LET n == Len(ear)
        blinks == [i \in 1..n |-> IF ear[i] < blink_threshold THEN 1 ELSE 0]
    IN  Cardinality({i \in 1..(n - 1) : blinks[i + 1] - blinks[i] = 1})

\* variant: the opening of the eye counted as a blink too
BlinkRate_bothedges(ear) ==
    LET n == Len(ear)
        blinks == [i \in 1..n |-> IF ear[i] < blink_threshold THEN 1 ELSE 0]
    IN  2 * Cardinality({i \in 1..(n - 1) : blinks[i + 1] - blinks[i] # 0})

\* blink_count = np.sum(np.diff(blinks) == 1); blink_rate = blink_count * 2
BlinkRate(ear) ==
    LET n == Len(ear)
        blinks == [i \in 1..n |-> IF ear[i] < blink_threshold THEN 1 ELSE 0]
    IN  2 * Cardinality({i \in 1..(n - 1) : blinks[i + 1] - blinks[i] = 1})

\* variant: temporal features already emitted at 29 samples
extract_temporal_features_eager(history) ==
    IF Len(history) < MinSamples - 1
    THEN NoTemporal
    ELSE LET recent == LastK(history, RecentWindow)
             gx  == [i \in 1..Len(recent) |-> recent[i].gaze_x]
             ear == [i \in 1..Len(recent) |-> recent[i].avg_ear]
         IN  [present |-> TRUE,
              blink_rate |-> BlinkRate(ear),
              gaze_stability_x |-> SampleVariance(gx),
              gaze_direction_changes |-> DirectionChanges(gx)]

\* extract_temporal_features
extract_temporal_features(history) ==
    IF Len(history) < MinSamples
    THEN NoTemporal
    ELSE LET recent == LastK(history, RecentWindow)
             gx  == [i \in 1..Len(recent) |-> recent[i].gaze_x]
             ear == [i \in 1..Len(recent) |-> recent[i].avg_ear]
         IN  [present |-> TRUE,
              blink_rate |-> BlinkRate(ear),
              gaze_stability_x |-> SampleVariance(gx),
              gaze_direction_changes |-> DirectionChanges(gx)]

\* variant: a failed eye computation yielding an EAR of 0
extract_eye_features_zero(frame) ==
    IF frame.eye_ok
    THEN [avg_ear |-> frame.avg_ear, gaze_x |-> frame.gaze_x]
    ELSE [avg_ear |-> 0, gaze_x |-> 0]

\* extract_eye_features: the computed values, or the neutral defaults when the
\* computation raised
extract_eye_features(frame) ==
    IF frame.eye_ok
    THEN [avg_ear |-> frame.avg_ear, gaze_x |-> frame.gaze_x]
    ELSE [avg_ear |-> EarDefault, gaze_x |-> 0]

\* extract_head_pose: the solved pitch, or 0 when the solve failed
extract_head_pose(frame) ==
    IF frame.pose_ok THEN [pitch |-> frame.pitch] ELSE [pitch |-> 0]

\* current_features = {**eye_features, **head_pose_features, ...}
current_features(frame) ==
    LET eye  == extract_eye_features(frame)
        pose == extract_head_pose(frame)
    IN  [avg_ear |-> eye.avg_ear, gaze_x |-> eye.gaze_x, pitch |-> pose.pitch]

NoFeatures == [avg_ear |-> EarDefault, gaze_x |-> 0, pitch |-> 0]

\* variant: eviction of the newest entry instead of the oldest
push_history_poplast(history, v) ==
    LET h == Append(history, v)
    IN  IF Len(h) > max_history THEN SubSeq(h, 1, Len(h) - 1) ELSE h

\* self.feature_history.append(...); if len > max_history: pop(0)
push_history(history, v) ==
    LET h == Append(history, v)
    IN  IF Len(h) > max_history THEN Tail(h) ELSE h

\* variant: default features pushed for a frame without a face
predict_reading_difficulty_pushnoface(history, frame) ==
    LET cur == current_features(frame)
        h   == push_history(history, cur)
        tf  == extract_temporal_features(h)
        sc  == score_features(cur, tf)
    IN  [history |-> h,
         out |-> [score |-> IF frame.face THEN sc.score ELSE 0,
                  mode |-> IF frame.face THEN sc.mode ELSE "noface",
                  error |-> ~frame.face,
                  current |-> IF frame.face THEN cur ELSE NoFeatures,
                  temporal |-> IF frame.face THEN tf ELSE NoTemporal]]

\* predict_reading_difficulty(frame): the new history and the returned
\* (difficulty_score, features)
predict_reading_difficulty(history, frame) ==
    IF ~frame.face
    THEN [history |-> history,
          out |-> [score |-> NoFaceResult.score, mode |-> NoFaceResult.mode,
                   error |-> TRUE, current |-> NoFeatures,
                   temporal |-> NoTemporal]]
    ELSE LET cur == current_features(frame)
             h   == push_history(history, cur)
             tf  == extract_temporal_features(h)
             sc  == score_features(cur, tf)
         IN  [history |-> h,
              out |-> [score |-> sc.score, mode |-> sc.mode, error |-> FALSE,
                       current |-> cur, temporal |-> tf]]

----------------------------------------------------------------------------
(* The frames the landmark provider delivers.  A stream is one of a few    *)
(* viewing scenarios; face frame number i of the stream carries the values *)
(* below, and frames without a face can occur between any two of them.     *)

Scenarios == {"steady", "struggling", "blinking", "degraded"}

ScenarioFrame(k, i) ==
    CASE k = "steady" ->
            \* constant gaze, level head, two blinks
            [face |-> TRUE, eye_ok |-> TRUE, pose_ok |-> TRUE,
             avg_ear |-> IF i \in {10, 20} THEN 180 ELSE 350,
             gaze_x |-> 40, pitch |-> 0]
      [] k = "struggling" ->
            \* gaze jumping back and forth, eyes nearly shut, head down
            [face |-> TRUE, eye_ok |-> TRUE, pose_ok |-> TRUE,
             avg_ear |-> 140,
             gaze_x |-> IF i % 2 = 0 THEN 100 ELSE 0, pitch |-> -200]
      [] k = "blinking" ->
            \* blink every other frame, gaze moving in plateaus
            [face |-> TRUE, eye_ok |-> TRUE, pose_ok |-> TRUE,
             avg_ear |-> IF i % 2 = 0 THEN 180 ELSE 300,
             gaze_x |-> IF (i \div 3) % 2 = 0 THEN 70 ELSE 0, pitch |-> -100]
      [] OTHER ->
            \* steady scan with periodic feature and pose failures
            [face |-> TRUE, eye_ok |-> (i % 4 # 0), pose_ok |-> (i % 5 # 0),
             avg_ear |-> 190, gaze_x |-> i % 60, pitch |-> -160]

NoFaceFrame ==
    [face |-> FALSE, eye_ok |-> FALSE, pose_ok |-> FALSE,
     avg_ear |-> EarDefault, gaze_x |-> 0, pitch |-> 0]

NoOutput ==
    [score |-> 0, mode |-> "none", error |-> FALSE, current |-> NoFeatures,
     temporal |-> NoTemporal]

\* ReadingDifficultyDetector.__init__
InitDet ==
    /\ scenario \in Scenarios
    /\ feature_history = << >>
    /\ pushed = << >>
    /\ lastOp = "init"
    /\ lastFrame = NoFaceFrame
    /\ out = NoOutput
    /\ det_session = "none"

\* the place of a face frame in the application's detection session: the
\* first one scored since start_detection, or a later one
AfterFaceFrame(sess) ==
    CASE sess = "started" -> "first"
      [] sess = "first"   -> "later"
      [] OTHER            -> sess

\* one call of predict_reading_difficulty on the next frame of the stream
Predict ==
    \E face \in BOOLEAN :
        /\ face => Len(pushed) < MaxPushes
        /\ LET frame == IF face THEN ScenarioFrame(scenario, Len(pushed) + 1)
                        ELSE NoFaceFrame
               r == predict_reading_difficulty(feature_history, frame)
           IN  /\ feature_history' = r.history
               /\ out' = r.out
               /\ lastFrame' = frame
               /\ pushed' = IF face THEN Append(pushed, current_features(frame))
                            ELSE pushed
        /\ det_session' = IF face THEN AfterFaceFrame(det_session)
                          ELSE det_session
        /\ lastOp' = "predict"
        /\ UNCHANGED scenario

\* variant: a reset that leaves the history as it is
reset_history_keep(history) == history

\* self.feature_history.clear()
reset_history(history) == << >>

\* reset(): clears the history; the stream that follows is again any scenario
Reset ==
    /\ feature_history' = reset_history(feature_history)
    /\ pushed' = << >>
    /\ scenario' \in Scenarios
    /\ lastOp' = "reset"
    /\ UNCHANGED <<lastFrame, out, det_session>>

\* start_detection of the application (main.py lines 232-246), as far as the
\* detector is concerned: nothing of the detector is called or changed
StartDetection ==
    /\ det_session = "none"
    /\ det_session' = "started"
    /\ UNCHANGED <<scenario, feature_history, pushed, lastOp, lastFrame, out>>

\* stop_detection of the application (main.py lines 248-266), as far as the
\* detector is concerned
StopDetection ==
    /\ det_session # "none"
    /\ det_session' = "none"
    /\ UNCHANGED <<scenario, feature_history, pushed, lastOp, lastFrame, out>>

----------------------------------------------------------------------------
(* Scoring of one feature map: predict_reading_difficulty after extraction, *)
(* with the extracted values as free inputs.                                *)

BlinkRates  == {0, 7, 8, 11, 12, 15, 25, 26}
Stabilities == {Frac(0, 1), Frac(1000, 1), Frac(2001, 2), Frac(2000, 1),
                Frac(4001, 2)}
Changes     == {0, 50, 51, 80, 81}
Pitches     == {-151, -150, -81, -80, 0}
Ears        == {149, 150, 199, 200, 300}

\* face: landmarks found; present: the temporal dict is non-empty
ScoreInputs ==
    [face : BOOLEAN, present : BOOLEAN, blink_rate : BlinkRates,
     gaze_stability_x : Stabilities, gaze_direction_changes : Changes,
     pitch : Pitches, avg_ear : Ears]

NoScoreInput ==
    [face |-> FALSE, present |-> FALSE, blink_rate |-> BlinkDefault,
     gaze_stability_x |-> Frac(0, 1), gaze_direction_changes |-> 0,
     pitch |-> 0, avg_ear |-> EarDefault]

NoScoreResult == [mode |-> "none", score |-> 0]

IdleScore ==
    /\ sc_input = NoScoreInput
    /\ sc_result = NoScoreResult

InitScoreInputs ==
    /\ sc_input \in {i \in ScoreInputs : i.present => i.face}
    /\ sc_result = NoScoreResult

\* predict_reading_difficulty on the extracted values
ScorePredict ==
    /\ sc_result = NoScoreResult
    /\ sc_result' =
          IF ~sc_input.face
          THEN NoFaceResult
          ELSE score_features(
                  [avg_ear |-> sc_input.avg_ear, pitch |-> sc_input.pitch],
                  [present |-> sc_input.present,
                   blink_rate |-> sc_input.blink_rate,
                   gaze_stability_x |-> sc_input.gaze_stability_x,
                   gaze_direction_changes |-> sc_input.gaze_direction_changes])
    /\ UNCHANGED sc_input

----------------------------------------------------------------------------
(* DataLogger.  A detection record is [difficulty_score, features]; the    *)
(* feature map is represented by the kind of its least plain value:        *)
(* "prim" (numbers, strings), "ndarray", "object"; sanitizing turns these  *)
(* into "prim", "list", "str".                                             *)

\* Bounds of the model
MaxSessions == 1
MaxLogged   == 2
MaxSupplied == 2

SessionIds == 1..MaxSessions

\* ids a caller may pass: the issued ones and one that is never issued
CallIds == 0..MaxSessions

SeqsUpTo(S, n) == UNION {[1..k -> S] : k \in 0..n}

\* what process_frame / a caller passes to log_detection
LogInputs ==
    {[difficulty_score |-> 20, features |-> "prim"],
     [difficulty_score |-> 70, features |-> "ndarray"]}

\* records of an in-memory history handed to end_session; a record may lack
\* its 'difficulty_score' key
SuppliedRecords ==
    {[has_score |-> TRUE,  difficulty_score |-> 90, features |-> "ndarray"],
     [has_score |-> FALSE, difficulty_score |-> 0,  features |-> "object"]}

\* the detection_history argument: None, or a list
NoHistory == [given |-> FALSE, recs |-> << >>]
SuppliedHistories ==
    {NoHistory} \cup
    {[given |-> TRUE, recs |-> r] : r \in SeqsUpTo(SuppliedRecords, MaxSupplied)}

\* _sanitize_features
sanitize_features(f) ==
    CASE f = "prim"    -> "prim"
      [] f = "ndarray" -> "list"
      [] OTHER         -> "str"

MaxOf(s) ==
    LET m[i \in 1..Len(s)] ==
            IF i = 1 THEN s[1] ELSE IF s[i] > m[i - 1] THEN s[i] ELSE m[i - 1]
    IN  m[Len(s)]

NoRecord ==
    [session_id |-> 0, total_detections |-> 0, avg_difficulty_score |-> Frac(0, 1),
     max_difficulty_score |-> 0, detections |-> << >>]

NoCall ==
    [op |-> "none", id |-> 0, outcome |-> "ok", given |-> FALSE,
     supplied |-> << >>, logged |-> << >>, record |-> NoRecord,
     written |-> FALSE]

\* a function without / with one more key
DropKey(f, k) == [i \in DOMAIN f \ {k} |-> f[i]]
PutKey(f, k, v) == [i \in DOMAIN f \cup {k} |-> IF i = k THEN v ELSE f[i]]

\* DataLogger.__init__ (an empty sessions directory)
InitLog ==
    /\ current_sessions = << >>
    /\ session_files = [i \in SessionIds |-> << >>]
    /\ next_id = 1
    /\ write_attempts = [i \in SessionIds |-> 0]
    /\ ended = {}
    /\ logged = << >>
    /\ lastCall = NoCall

\* start_session: a new session under a fresh id
start_session(sessions, id) ==
    PutKey(sessions, id, [session_id |-> id, detections |-> << >>])

\* log_detection
log_detection(sessions, id, rec) ==
    IF id \notin DOMAIN sessions
    THEN [sessions |-> sessions, outcome |-> "reported"]
    ELSE LET detection_data ==
                 [difficulty_score |-> rec.difficulty_score,
                  features |-> sanitize_features(rec.features)]
         IN  [sessions |->
                  [sessions EXCEPT ![id].detections = Append(@, detection_data)],
              outcome |-> "ok"]

\* variant: the supplied history ignored
final_detections_never_supplied(session_data, hist) ==
    session_data.detections

\* end_session, lines 90-101: the detections the record is built from
final_detections(session_data, hist) ==
    LET truthy == hist.given /\ Len(hist.recs) > 0
        detections == IF truthy THEN hist.recs ELSE session_data.detections
    IN  IF hist.given /\ Len(hist.recs) > 0
        THEN [i \in 1..Len(hist.recs) |->
                 [difficulty_score |-> IF hist.recs[i].has_score
                                       THEN hist.recs[i].difficulty_score ELSE 0,
                  features |-> sanitize_features(hist.recs[i].features)]]
        ELSE detections

\* variant: the last score reported as the maximum
finalize_session_lastmax(session_data, detections) ==
    LET difficulty_scores ==
            [i \in 1..Len(detections) |-> detections[i].difficulty_score]
        n == Len(difficulty_scores)
    IN  [session_id |-> session_data.session_id,
         total_detections |-> Len(detections),
         avg_difficulty_score |->
             IF n > 0 THEN Frac(SumTo(difficulty_scores, n), n) ELSE Frac(0, 1),
         max_difficulty_score |->
             IF n > 0 THEN difficulty_scores[n] ELSE 0,
         detections |-> detections]

\* end_session, lines 103-121: the finalized session_data
finalize_session(session_data, detections) ==
    LET difficulty_scores ==
            [i \in 1..Len(detections) |-> detections[i].difficulty_score]
        n == Len(difficulty_scores)
    IN  [session_id |-> session_data.session_id,
         total_detections |-> Len(detections),
         avg_difficulty_score |->
             IF n > 0 THEN Frac(SumTo(difficulty_scores, n), n) ELSE Frac(0, 1),
         max_difficulty_score |->
             IF n > 0 THEN MaxOf(difficulty_scores) ELSE 0,
         detections |-> detections]

\* variant: the session left in current_sessions after the write
end_session_keep(sessions, files, id, hist, write_ok) ==
    IF id \notin DOMAIN sessions
    THEN [sessions |-> sessions, files |-> files, outcome |-> "reported",
          record |-> NoRecord, attempted |-> FALSE]
    ELSE LET record == finalize_session(sessions[id],
                           final_detections(sessions[id], hist))
         IN  [sessions |-> sessions,
              files |-> IF write_ok
                        THEN [files EXCEPT ![id] = Append(@, record)]
                        ELSE files,
              outcome |-> "ok", record |-> record, attempted |-> TRUE]

\* variant: an unknown id raising instead of being reported
end_session_keyerror(sessions, files, id, hist, write_ok) ==
    IF id \notin DOMAIN sessions
    THEN [sessions |-> sessions, files |-> files, outcome |-> "raised",
          record |-> NoRecord, attempted |-> FALSE]
    ELSE LET record == finalize_session(sessions[id],
                           final_detections(sessions[id], hist))
         IN  [sessions |-> DropKey(sessions, id),
              files |-> IF write_ok
                        THEN [files EXCEPT ![id] = Append(@, record)]
                        ELSE files,
              outcome |-> "ok", record |-> record, attempted |-> TRUE]

\* variant: a failed write undoing the finalization and keeping the session
end_session_rollback(sessions, files, id, hist, write_ok) ==
    IF id \notin DOMAIN sessions
    THEN [sessions |-> sessions, files |-> files, outcome |-> "reported",
          record |-> NoRecord, attempted |-> FALSE]
    ELSE LET record == finalize_session(sessions[id],
                           final_detections(sessions[id], hist))
         IN  IF write_ok
             THEN [sessions |-> DropKey(sessions, id),
                   files |-> [files EXCEPT ![id] = Append(@, record)],
                   outcome |-> "ok", record |-> record, attempted |-> TRUE]
             ELSE [sessions |-> sessions, files |-> files, outcome |-> "ok",
                   record |-> [NoRecord EXCEPT !.session_id = id],
                   attempted |-> TRUE]

\* end_session: the write may fail (reported, not raised); the session is
\* deleted from current_sessions either way
end_session(sessions, files, id, hist, write_ok) ==
    IF id \notin DOMAIN sessions
    THEN [sessions |-> sessions, files |-> files, outcome |-> "reported",
          record |-> NoRecord, attempted |-> FALSE]
    ELSE LET record == finalize_session(sessions[id],
                           final_detections(sessions[id], hist))
         IN  [sessions |-> DropKey(sessions, id),
              files |-> IF write_ok
                        THEN [files EXCEPT ![id] = Append(@, record)]
                        ELSE files,
              outcome |-> "ok", record |-> record, attempted |-> TRUE]

StartSession ==
    /\ next_id <= MaxSessions
    /\ current_sessions' = start_session(current_sessions, next_id)
    /\ logged' = PutKey(logged, next_id, << >>)
    /\ lastCall' = [NoCall EXCEPT !.op = "start", !.id = next_id]
    /\ next_id' = next_id + 1
    /\ UNCHANGED <<session_files, write_attempts, ended>>

LogDetection ==
    \E id \in CallIds, rec \in LogInputs :
        /\ id \in DOMAIN current_sessions
              => Len(current_sessions[id].detections) < MaxLogged
        /\ LET r == log_detection(current_sessions, id, rec)
           IN  /\ current_sessions' = r.sessions
               /\ lastCall' = [NoCall EXCEPT !.op = "log", !.id = id,
                                             !.outcome = r.outcome]
               /\ logged' = IF id \in DOMAIN logged
                            THEN [logged EXCEPT ![id] = Append(@, rec)]
                            ELSE logged
        /\ UNCHANGED <<session_files, next_id, write_attempts, ended>>

\* The arguments of an end_session call.  For an id that is not active the
\* handler returns before it reads the history or opens the file, so one
\* absent and one non-empty history stand for all of them.
HistoriesFor(id) ==
    IF id \in DOMAIN current_sessions
    THEN SuppliedHistories
    ELSE {NoHistory} \cup
         {[given |-> TRUE, recs |-> <<r>>] : r \in SuppliedRecords}

WriteOutcomesFor(id) ==
    IF id \in DOMAIN current_sessions THEN BOOLEAN ELSE {TRUE}

EndSession ==
    \E id \in CallIds :
    \E hist \in HistoriesFor(id), write_ok \in WriteOutcomesFor(id) :
        LET r == end_session(current_sessions, session_files, id, hist, write_ok)
        IN  /\ current_sessions' = r.sessions
            /\ session_files' = r.files
            /\ write_attempts' =
                  IF r.attempted THEN [write_attempts EXCEPT ![id] = @ + 1]
                  ELSE write_attempts
            /\ ended' = IF r.outcome = "ok" THEN ended \cup {id} ELSE ended
            /\ lastCall' =
                  [op |-> "end", id |-> id, outcome |-> r.outcome,
                   given |-> hist.given, supplied |-> hist.recs,
                   logged |-> IF id \in DOMAIN logged THEN logged[id] ELSE << >>,
                   record |-> r.record, written |-> r.attempted /\ write_ok]
            /\ logged' = IF r.outcome = "ok" THEN DropKey(logged, id) ELSE logged
            /\ UNCHANGED next_id

----------------------------------------------------------------------------
(* ReadingDifficultyApp (src/main.py): the video thread runs               *)
(* update_video_feed / process_frame / DataLogger.log_detection, the GUI   *)
(* thread runs the button handlers start_detection and stop_detection /    *)
(* DataLogger.end_session.  The threads share the fields of the app and of *)
(* the logger without any lock, so each step below is one read or write of *)
(* shared state.  Detections are identified by the number of their frame.  *)

MaxFrames      == 3
MaxAppSessions == 2

AppSessionIds == 1..MaxAppSessions

\* the positions of the GUI thread inside DataLogger.end_session
EndSteps == {"end_check", "end_select", "end_summary", "end_write", "end_delete"}

NoDetections == [alias |-> FALSE, recs |-> << >>]

\* ReadingDifficultyApp.__init__
InitApp ==
    /\ is_analyzing = FALSE
    /\ current_session = 0
    /\ detection_history = << >>
    /\ app_sessions = << >>
    /\ app_files = [i \in AppSessionIds |-> << >>]
    /\ app_next_id = 1
    /\ frame_no = 0
    /\ vpc = "feed"
    /\ v_sid = 0
    /\ gpc = "idle"
    /\ g_sid = 0
    /\ g_detections = NoDetections
    /\ g_total = 0

\* update_video_feed, lines 162-165: a frame is there and analysis is on
VideoFeed ==
    /\ vpc = "feed"
    /\ is_analyzing
    /\ frame_no < MaxFrames
    /\ vpc' = "predict"
    /\ UNCHANGED <<is_analyzing, current_session, detection_history,
                   app_sessions, app_files, app_next_id, frame_no, v_sid,
                   gpc, g_sid, g_detections, g_total>>

\* process_frame, lines 191-210: the detector scores the frame
ProcessPredict ==
    /\ vpc = "predict"
    /\ frame_no' = frame_no + 1
    /\ vpc' = "append"
    /\ UNCHANGED <<is_analyzing, current_session, detection_history,
                   app_sessions, app_files, app_next_id, v_sid,
                   gpc, g_sid, g_detections, g_total>>

\* process_frame, line 211
ProcessAppend ==
    /\ vpc = "append"
    /\ detection_history' = Append(detection_history, frame_no)
    /\ vpc' = "check"
    /\ UNCHANGED <<is_analyzing, current_session, app_sessions, app_files,
                   app_next_id, frame_no, v_sid, gpc, g_sid, g_detections,
                   g_total>>

\* process_frame, line 214: if self.current_session
ProcessCheck ==
    /\ vpc = "check"
    /\ vpc' = IF current_session # 0 THEN "call" ELSE "feed"
    /\ UNCHANGED <<is_analyzing, current_session, detection_history,
                   app_sessions, app_files, app_next_id, frame_no, v_sid,
                   gpc, g_sid, g_detections, g_total>>

\* process_frame, line 215: self.current_session is read again as argument
ProcessCall ==
    /\ vpc = "call"
    /\ v_sid' = current_session
    /\ vpc' = "log_check"
    /\ UNCHANGED <<is_analyzing, current_session, detection_history,
                   app_sessions, app_files, app_next_id, frame_no,
                   gpc, g_sid, g_detections, g_total>>

\* log_detection, lines 45-47: an unknown id is reported
LogCheck ==
    /\ vpc = "log_check"
    /\ vpc' = IF v_sid \in DOMAIN app_sessions THEN "log_append" ELSE "feed"
    /\ UNCHANGED <<is_analyzing, current_session, detection_history,
                   app_sessions, app_files, app_next_id, frame_no, v_sid,
                   gpc, g_sid, g_detections, g_total>>

\* log_detection, line 57; a KeyError is swallowed by process_frame, line 218
LogAppend ==
    /\ vpc = "log_append"
    /\ app_sessions' = IF v_sid \in DOMAIN app_sessions
                       THEN [app_sessions EXCEPT ![v_sid] = Append(@, frame_no)]
                       ELSE app_sessions
    /\ vpc' = "feed"
    /\ UNCHANGED <<is_analyzing, current_session, detection_history,
                   app_files, app_next_id, frame_no, v_sid,
                   gpc, g_sid, g_detections, g_total>>

\* start_detection, line 234 (the start button is enabled only while stopped)
StartSetFlag ==
    /\ gpc = "idle"
    /\ app_next_id <= MaxAppSessions
    /\ is_analyzing' = TRUE
    /\ gpc' = "start_session"
    /\ UNCHANGED <<current_session, detection_history, app_sessions, app_files,
                   app_next_id, frame_no, vpc, v_sid, g_sid, g_detections,
                   g_total>>

\* start_detection, line 235: data_logger.start_session()
StartNewSession ==
    /\ gpc = "start_session"
    /\ app_sessions' = PutKey(app_sessions, app_next_id, << >>)
    /\ current_session' = app_next_id
    /\ app_next_id' = app_next_id + 1
    /\ gpc' = "start_clear"
    /\ UNCHANGED <<is_analyzing, detection_history, app_files, frame_no, vpc,
                   v_sid, g_sid, g_detections, g_total>>

\* start_detection, line 236
StartClear ==
    /\ gpc = "start_clear"
    /\ detection_history' = << >>
    /\ gpc' = "running"
    /\ UNCHANGED <<is_analyzing, current_session, app_sessions, app_files,
                   app_next_id, frame_no, vpc, v_sid, g_sid, g_detections,
                   g_total>>

\* stop_detection, line 250 (the stop button is enabled only while running)
StopClearFlag ==
    /\ gpc = "running"
    /\ is_analyzing' = FALSE
    /\ gpc' = "stop_check"
    /\ UNCHANGED <<current_session, detection_history, app_sessions, app_files,
                   app_next_id, frame_no, vpc, v_sid, g_sid, g_detections,
                   g_total>>

\* stop_detection, lines 252-253: end_session(self.current_session, ...)
StopCheck ==
    /\ gpc = "stop_check"
    /\ g_sid' = current_session
    /\ gpc' = IF current_session # 0 THEN "end_check" ELSE "stop_reset"
    /\ UNCHANGED <<is_analyzing, current_session, detection_history,
                   app_sessions, app_files, app_next_id, frame_no, vpc, v_sid,
                   g_detections, g_total>>

\* end_session, lines 83-87
EndCheck ==
    /\ gpc = "end_check"
    /\ gpc' = IF g_sid \in DOMAIN app_sessions THEN "end_select" ELSE "stop_reset"
    /\ UNCHANGED <<is_analyzing, current_session, detection_history,
                   app_sessions, app_files, app_next_id, frame_no, vpc, v_sid,
                   g_sid, g_detections, g_total>>

\* end_session, lines 90-101: a non-empty detection_history is converted into
\* a new list, otherwise 'detections' is the session's own list
EndSelect ==
    /\ gpc = "end_select"
    /\ g_detections' = IF detection_history # << >>
                       THEN [alias |-> FALSE, recs |-> detection_history]
                       ELSE [alias |-> TRUE, recs |-> << >>]
    /\ gpc' = "end_summary"
    /\ UNCHANGED <<is_analyzing, current_session, detection_history,
                   app_sessions, app_files, app_next_id, frame_no, vpc, v_sid,
                   g_sid, g_total>>

\* the list the local 'detections' of end_session refers to
EndDetections ==
    IF g_detections.alias THEN app_sessions[g_sid] ELSE g_detections.recs

\* end_session, lines 103-121
EndSummary ==
    /\ gpc = "end_summary"
    /\ g_total' = Len(EndDetections)
    /\ gpc' = "end_write"
    /\ UNCHANGED <<is_analyzing, current_session, detection_history,
                   app_sessions, app_files, app_next_id, frame_no, vpc, v_sid,
                   g_sid, g_detections>>

\* end_session, lines 123-129: json.dump of session_data, which may fail
EndWrite ==
    /\ gpc = "end_write"
    /\ \E write_ok \in BOOLEAN :
          app_files' =
              IF write_ok
              THEN [app_files EXCEPT ![g_sid] =
                       Append(@, [total_detections |-> g_total,
                                  detections |-> EndDetections])]
              ELSE app_files
    /\ gpc' = "end_delete"
    /\ UNCHANGED <<is_analyzing, current_session, detection_history,
                   app_sessions, app_next_id, frame_no, vpc, v_sid,
                   g_sid, g_detections, g_total>>

\* end_session, line 131
EndDelete ==
    /\ gpc = "end_delete"
    /\ app_sessions' = DropKey(app_sessions, g_sid)
    /\ g_detections' = NoDetections
    /\ gpc' = "stop_reset"
    /\ UNCHANGED <<is_analyzing, current_session, detection_history,
                   app_files, app_next_id, frame_no, vpc, v_sid, g_sid, g_total>>

\* stop_detection, line 260
StopReset ==
    /\ gpc = "stop_reset"
    /\ current_session' = 0
    /\ gpc' = "idle"
    /\ UNCHANGED <<is_analyzing, detection_history, app_sessions, app_files,
                   app_next_id, frame_no, vpc, v_sid, g_sid, g_detections,
                   g_total>>

----------------------------------------------------------------------------
(* VideoProcessor (src/src/utils/video_processor.py): the capture thread   *)
(* runs _capture_loop, a caller thread runs start_capture / stop_capture,  *)
(* a consumer thread runs get_current_frame.  Frames are identified by the *)
(* number the camera delivered them with; a frame buffer carries a mark    *)
(* 'dirty' that is set when its holder changes it in place.  start_capture *)
(* is called only while no capture thread is alive.                        *)

max_failures == 5

MaxCaptured == 2
MaxGets     == 2

ReadOutcomes == {"ok", "fail", "raise"}

\* self.current_frame = None
NoFrame == [frame |-> 0, dirty |-> FALSE]
NotGot  == [alias |-> FALSE, frame |-> 0, dirty |-> FALSE]

\* VideoProcessor.__init__
InitVideo ==
    /\ cap = "none"
    /\ is_running = FALSE
    /\ current_frame = NoFrame
    /\ frame_lock = "free"
    /\ cpc = "none"
    /\ consecutive_failures = 0
    /\ processed_frame = 0
    /\ next_frame = 1
    /\ failed_in_a_row = 0
    /\ was_reset = FALSE
    /\ exit_reason = "none"
    /\ after_stop = 0
    /\ mpc = "idle"
    /\ join_timed_out = FALSE
    /\ upc = "idle"
    /\ got = NotGot
    /\ seen = << >>

\* is_camera_available(); isOpened() holds for a capture that was opened and
\* not released
is_camera_available == cap # "none" /\ cap = "open" /\ is_running

\* start_capture: initialize_camera may fail (no state is changed then);
\* otherwise the flag is set and a new capture thread starts
StartCapture ==
    /\ mpc = "idle"
    /\ cpc \in {"none", "done"}
    /\ \E opened \in BOOLEAN :
          IF opened
          THEN /\ cap' = "open"
               /\ is_running' = TRUE
               /\ cpc' = "test"
               /\ consecutive_failures' = 0
               /\ failed_in_a_row' = 0
               /\ was_reset' = FALSE
               /\ exit_reason' = "none"
               /\ after_stop' = 0
          ELSE /\ cap' = "none"
               /\ UNCHANGED <<is_running, cpc, consecutive_failures, failed_in_a_row, was_reset,
                              exit_reason, after_stop>>
    /\ UNCHANGED <<current_frame, frame_lock, processed_frame, next_frame,
                   mpc, join_timed_out, upc, got, seen>>

\* variant: a loop that does not look at the running flag
loop_condition_noflag(running, c) == c # "none" /\ c = "open"

\* while self.is_running and self.cap and self.cap.isOpened()
loop_condition(running, c) == running /\ c # "none" /\ c = "open"

\* _capture_loop, line 96: the loop condition is evaluated
CaptureTest ==
    /\ cpc = "test"
    /\ IF loop_condition(is_running, cap)
       THEN cpc' = "read" /\ UNCHANGED exit_reason
       ELSE cpc' = "done" /\ exit_reason' = "condition"
    /\ UNCHANGED <<cap, is_running, current_frame, frame_lock,
                   consecutive_failures, processed_frame, next_frame, failed_in_a_row, was_reset,
                   after_stop, mpc, join_timed_out, upc, got, seen>>

\* what cap.read() can do: a released capture (None) raises
ReadOutcomesNow ==
    IF cap = "open"
    THEN IF next_frame <= MaxCaptured THEN ReadOutcomes ELSE {"fail", "raise"}
    ELSE {"raise"}

\* variant: a counter that a successful read does not reset
count_failure_noreset(counter, outcome) ==
    IF outcome = "ok" THEN counter ELSE counter + 1

\* the counter after one read
count_failure(counter, outcome) == IF outcome = "ok" THEN 0 ELSE counter + 1

\* whether the loop breaks after a read that left the counter at c
breaks_loop(c, outcome) == outcome # "ok" /\ c >= max_failures

\* _capture_loop, lines 99-102 and 115-127: one read and its bookkeeping
CaptureRead ==
    /\ cpc = "read"
    /\ \E o \in ReadOutcomesNow :
          LET c == count_failure(consecutive_failures, o)
          IN  /\ consecutive_failures' = c
              /\ failed_in_a_row' = IF o = "ok" THEN 0 ELSE failed_in_a_row + 1
              /\ was_reset' = (was_reset \/ (o = "ok" /\ failed_in_a_row > 0))
              /\ IF o = "ok"
                 THEN /\ processed_frame' = next_frame
                      /\ next_frame' = next_frame + 1
                      /\ cpc' = "lock"
                      /\ UNCHANGED exit_reason
                 ELSE /\ UNCHANGED <<processed_frame, next_frame>>
                      /\ IF breaks_loop(c, o)
                         THEN cpc' = "done" /\ exit_reason' = "failures"
                         ELSE cpc' = "test" /\ UNCHANGED exit_reason
    /\ UNCHANGED <<cap, is_running, current_frame, frame_lock, after_stop,
                   mpc, join_timed_out, upc, got, seen>>

\* _capture_loop, line 106: with self.frame_lock
CaptureLock ==
    /\ cpc = "lock"
    /\ frame_lock = "free"
    /\ frame_lock' = "capture"
    /\ cpc' = "publish"
    /\ UNCHANGED <<cap, is_running, current_frame, consecutive_failures,
                   processed_frame, next_frame, failed_in_a_row, was_reset, exit_reason, after_stop,
                   mpc, join_timed_out, upc, got, seen>>

\* variant: a store that keeps an unread frame instead of overwriting it
publish_frame_keepfirst(store, n) ==
    IF store.frame # 0 THEN store ELSE [frame |-> n, dirty |-> FALSE]

\* self.current_frame = processed_frame.copy()
publish_frame(store, n) == [frame |-> n, dirty |-> FALSE]

\* _capture_loop, lines 107-114: the store is overwritten, the lock released
CapturePublish ==
    /\ cpc = "publish"
    /\ current_frame' = publish_frame(current_frame, processed_frame)
    /\ frame_lock' = "free"
    /\ after_stop' = IF is_running THEN after_stop ELSE after_stop + 1
    /\ cpc' = "test"
    /\ UNCHANGED <<cap, is_running, consecutive_failures, processed_frame,
                   next_frame, failed_in_a_row, was_reset, exit_reason, mpc, join_timed_out, upc,
                   got, seen>>

\* stop_capture, line 81
StopClearRunning ==
    /\ mpc = "idle"
    /\ is_running' = FALSE
    /\ mpc' = "join"
    /\ UNCHANGED <<cap, current_frame, frame_lock, cpc, consecutive_failures,
                   processed_frame, next_frame, failed_in_a_row, was_reset, exit_reason, after_stop,
                   join_timed_out, upc, got, seen>>

\* stop_capture, lines 83-84: join(timeout=1.0) returns when the thread has
\* ended or when the timeout expires, whichever comes first
StopJoin ==
    /\ mpc = "join"
    /\ join_timed_out' = (cpc \notin {"none", "done"})
    /\ mpc' = "release"
    /\ UNCHANGED <<cap, is_running, current_frame, frame_lock, cpc,
                   consecutive_failures, processed_frame, next_frame, failed_in_a_row, was_reset,
                   exit_reason, after_stop, upc, got, seen>>

\* stop_capture, lines 86-90: release the capture and forget it
StopRelease ==
    /\ mpc = "release"
    /\ cap' = "none"
    /\ mpc' = "idle"
    /\ UNCHANGED <<is_running, current_frame, frame_lock, cpc,
                   consecutive_failures, processed_frame, next_frame, failed_in_a_row, was_reset,
                   exit_reason, after_stop, join_timed_out, upc, got, seen>>

\* get_current_frame, line 147: with self.frame_lock
GetLock ==
    /\ upc = "idle"
    /\ Len(seen) < MaxGets
    /\ frame_lock = "free"
    /\ frame_lock' = "consumer"
    /\ upc' = "locked"
    /\ UNCHANGED <<cap, is_running, current_frame, cpc, consecutive_failures,
                   processed_frame, next_frame, failed_in_a_row, was_reset, exit_reason, after_stop,
                   mpc, join_timed_out, got, seen>>

\* variant: the stored buffer itself handed out
get_current_frame_nocopy(store) ==
    [alias |-> store.frame # 0, frame |-> store.frame, dirty |-> store.dirty]

\* get_current_frame, line 148: a copy of the stored frame, or None
get_current_frame(store) ==
    IF store.frame # 0
    THEN [alias |-> FALSE, frame |-> store.frame, dirty |-> store.dirty]
    ELSE NotGot

\* get_current_frame returns and releases the lock
GetCopy ==
    /\ upc = "locked"
    /\ got' = get_current_frame(current_frame)
    /\ seen' = Append(seen, got'.frame)
    /\ frame_lock' = "free"
    /\ upc' = "idle"
    /\ UNCHANGED <<cap, is_running, current_frame, cpc, consecutive_failures,
                   processed_frame, next_frame, failed_in_a_row, was_reset, exit_reason, after_stop,
                   mpc, join_timed_out>>

\* the caller changes, in place, the array get_current_frame handed to it
\* (the array is the caller's from main.py line 162 on)
DrawOnFrame ==
    /\ upc = "idle"
    /\ got.frame # 0
    /\ ~got.dirty
    /\ IF got.alias
       THEN /\ current_frame' = [current_frame EXCEPT !.dirty = TRUE]
            /\ got' = [got EXCEPT !.dirty = TRUE]
       ELSE /\ got' = [got EXCEPT !.dirty = TRUE]
            /\ UNCHANGED current_frame
    /\ UNCHANGED <<cap, is_running, frame_lock, cpc, consecutive_failures,
                   processed_frame, next_frame, failed_in_a_row, was_reset, exit_reason, after_stop,
                   mpc, join_timed_out, upc, seen>>

----------------------------------------------------------------------------
(* VideoProcessor, start and stop (video_processor.py lines 31-90): any    *)
(* sequence of start_capture and stop_capture calls by one caller thread,  *)
(* each capture thread running the loop condition and the read of          *)
(* _capture_loop (the frame store is left out here).  A VideoCapture       *)
(* object is released when release() is called on it and when self.cap,    *)
(* its only reference, is assigned something else.                         *)

MaxStarts == 2

CameraIndices == 0..3
FallbackIds == <<0, 1, 2>>

NoStart ==
    [n |-> 0, configured |-> 0, test_ok |-> FALSE, ok |-> FALSE, device |-> -1,
     running_before |-> FALSE, loops_before |-> 0]

\* VideoProcessor.__init__
InitProcessor ==
    /\ lc_cap = 0
    /\ lc_running = FALSE
    /\ handles = << >>
    /\ loops = << >>
    /\ lc_mpc = "idle"
    /\ last_start = NoStart

\* a processor configured with any id on a machine with any set of cameras
InitLifecycle ==
    /\ devices \in SUBSET CameraIndices
    /\ camera_id \in {0, 3}
    /\ InitProcessor

\* a processor that is never started
IdleLifecycle == devices = {} /\ camera_id = 0 /\ InitProcessor

\* variant: the fallback ids tried from the last to the first
initialize_camera_reversed(cam, devs, test_ok) ==
    LET order == <<cam, 2, 1, 0>>
        opening == {i \in 1..4 : order[i] \in devs}
    IN  IF opening = {}
        THEN [ok |-> FALSE, device |-> -1]
        ELSE LET first == CHOOSE i \in opening : \A j \in opening : i <= j
             IN  [ok |-> test_ok, device |-> order[first]]

\* initialize_camera: the first of [camera_id, 0, 1, 2] that opens is kept
\* and must deliver a test frame; 'device' is the index that was opened
initialize_camera(cam, devs, test_ok) ==
    LET order == <<cam>> \o FallbackIds
        opening == {i \in 1..Len(order) : order[i] \in devs}
    IN  IF opening = {}
        THEN [ok |-> FALSE, device |-> -1]
        ELSE LET first == CHOOSE i \in opening : \A j \in opening : i <= j
             IN  [ok |-> test_ok, device |-> order[first]]

\* every handle released
ReleaseAll(hs) == [i \in 1..Len(hs) |-> [hs[i] EXCEPT !.open = FALSE]]

\* start_capture: initialize_camera assigns self.cap, so the capture held
\* before is dropped; on success the flag is set and a new thread is started
LcStartCapture ==
    /\ lc_mpc = "idle"
    /\ last_start.n < MaxStarts
    /\ \E test_ok \in BOOLEAN :
          LET r == initialize_camera(camera_id, devices, test_ok)
          IN  /\ last_start' =
                    [n |-> last_start.n + 1, configured |-> camera_id,
                     test_ok |-> test_ok, ok |-> r.ok, device |-> r.device,
                     running_before |-> lc_running, loops_before |-> Len(loops)]
              /\ IF r.ok
                 THEN /\ handles' = Append(ReleaseAll(handles),
                                           [device |-> r.device, open |-> TRUE])
                      /\ lc_cap' = Len(handles) + 1
                      /\ camera_id' = r.device
                      /\ lc_running' = TRUE
                      /\ loops' = Append(loops, [pc |-> "test", failures |-> 0])
                 ELSE /\ handles' = ReleaseAll(handles)
                      /\ lc_cap' = 0
                      /\ camera_id' = IF r.device >= 0 THEN r.device ELSE camera_id
                      /\ UNCHANGED <<lc_running, loops>>
    /\ UNCHANGED <<devices, lc_mpc>>

\* what self.cap is to a loop: None, an opened capture or a released one
CapState ==
    IF lc_cap = 0 THEN "none"
    ELSE IF handles[lc_cap].open THEN "open" ELSE "closed"

\* _capture_loop, line 96, in thread t
LcLoopTest(t) ==
    /\ loops[t].pc = "test"
    /\ loops' = [loops EXCEPT ![t].pc =
                    IF loop_condition(lc_running, CapState) THEN "read" ELSE "done"]
    /\ UNCHANGED <<devices, camera_id, lc_cap, lc_running, handles, lc_mpc,
                   last_start>>

\* what cap.read() can do in this state: None raises, a released capture
\* returns no frame
LcReadOutcomes ==
    CASE CapState = "open"   -> {"ok", "fail"}
      [] CapState = "closed" -> {"fail"}
      [] OTHER               -> {"raise"}

\* _capture_loop, lines 99-127, in thread t
LcLoopRead(t) ==
    /\ loops[t].pc = "read"
    /\ \E o \in LcReadOutcomes :
          LET c == count_failure(loops[t].failures, o)
          IN  loops' = [loops EXCEPT ![t] =
                           [pc |-> IF breaks_loop(c, o) THEN "done" ELSE "test",
                            failures |-> c]]
    /\ UNCHANGED <<devices, camera_id, lc_cap, lc_running, handles, lc_mpc,
                   last_start>>

\* stop_capture, line 81
LcStopClearRunning ==
    /\ lc_mpc = "idle"
    /\ lc_running' = FALSE
    /\ lc_mpc' = "join"
    /\ UNCHANGED <<devices, camera_id, lc_cap, handles, loops, last_start>>

\* stop_capture, lines 83-84: the join of the thread started last returns
\* when that thread has ended or when the timeout expires
LcStopJoin ==
    /\ lc_mpc = "join"
    /\ lc_mpc' = "release"
    /\ UNCHANGED <<devices, camera_id, lc_cap, lc_running, handles, loops,
                   last_start>>

\* stop_capture, lines 86-90
LcStopRelease ==
    /\ lc_mpc = "release"
    /\ handles' = IF lc_cap # 0 THEN [handles EXCEPT ![lc_cap].open = FALSE]
                  ELSE handles
    /\ lc_cap' = 0
    /\ lc_mpc' = "idle"
    /\ UNCHANGED <<devices, camera_id, lc_running, loops, last_start>>

----------------------------------------------------------------------------
(* _calculate_ear (reading_detector.py lines 95-109) on the six landmark   *)
(* points of one eye.  Landmarks have integer pixel coordinates; the       *)
(* inputs are eyes whose three point distances are whole numbers, so that  *)
(* the norms and the ratio are exact.  The result is an exact fraction.    *)

MaxCoord == 5

\* the vectors between the two points of a pair: every vector with
\* coordinates in 0..MaxCoord whose length is a whole number
PairVectors ==
    {v \in (0..MaxCoord) \X (0..MaxCoord) :
        \E r \in 0..(2 * MaxCoord) : r * r = v[1] * v[1] + v[2] * v[2]}

\* an eye: points[0..5] of the source are EyeOf(..)[1..6]
EyeOf(vA, vB, vC) ==
    <<  <<10, 20>>,
        <<14, 10>>,
        <<20, 10>>,
        <<10 + vC[1], 20 + vC[2]>>,
        <<20 + vB[1], 10 + vB[2]>>,
        <<14 + vA[1], 10 + vA[2]>> >>

\* well-formed eyes, and eyes with too few points (indexing them raises)
EyeInputs ==
    {EyeOf(a, b, c) : a \in PairVectors, b \in PairVectors, c \in PairVectors}
    \cup {SubSeq(EyeOf(a, b, <<0, 0>>), 1, 3) : a \in PairVectors, b \in PairVectors}

NoEar == [done |-> FALSE, value |-> Frac(0, 1)]

\* np.linalg.norm of p - q, for points whose distance is a whole number
Norm(p, q) ==
    LET sq == (p[1] - q[1]) * (p[1] - q[1]) + (p[2] - q[2]) * (p[2] - q[2])
    IN  CHOOSE r \in 0..sq : r * r <= sq /\ sq < (r + 1) * (r + 1)

\* variant: the ratio returned without max(0.0, min(1.0, ear))
calculate_ear_unclamped(points) ==
    IF Len(points) < 6
    THEN Frac(3, 10)
    ELSE LET A == Norm(points[2], points[6])
             B == Norm(points[3], points[5])
             C == Norm(points[1], points[4])
         IN  IF C > 0 THEN Frac(A + B, 2 * C) ELSE Frac(3, 10)

\* _calculate_ear
calculate_ear(points) ==
    IF Len(points) < 6
    THEN Frac(3, 10)
    ELSE LET A == Norm(points[2], points[6])
             B == Norm(points[3], points[5])
             C == Norm(points[1], points[4])
             e == IF C > 0 THEN Frac(A + B, 2 * C) ELSE Frac(3, 10)
         IN  IF e.num > e.den THEN Frac(1, 1)
             ELSE IF e.num < 0 THEN Frac(0, 1)
             ELSE e

IdleEar == eye_points = << >> /\ ear_ret = NoEar

InitEar == eye_points \in EyeInputs /\ ear_ret = NoEar

\* one call of _calculate_ear
CalculateEar ==
    /\ ~ear_ret.done
    /\ ear_ret' = [done |-> TRUE, value |-> calculate_ear(eye_points)]
    /\ UNCHANGED eye_points

----------------------------------------------------------------------------
(* Specifications *)

\* the detector on a frame stream
Init == InitDet /\ IdleScore /\ InitLog /\ InitApp /\ InitVideo /\ IdleLifecycle /\ IdleEar
Next ==
    \/ Predict /\ UNCHANGED <<scVars, logVars, appVars, vidVars, lcVars, earVars>>
    \/ Reset /\ UNCHANGED <<scVars, logVars, appVars, vidVars, lcVars, earVars>>
    \/ StartDetection /\ UNCHANGED <<scVars, logVars, appVars, vidVars, lcVars, earVars>>
    \/ StopDetection /\ UNCHANGED <<scVars, logVars, appVars, vidVars, lcVars, earVars>>
Spec == Init /\ [][Next]_vars

\* the scorer on free inputs
InitScore ==
    InitScoreInputs /\ InitDet /\ scenario = "steady" /\ InitLog /\ InitApp /\ InitVideo /\ IdleLifecycle /\ IdleEar
NextScore == ScorePredict /\ UNCHANGED <<detVars, logVars, appVars, vidVars, lcVars, earVars>>
SpecScore == InitScore /\ [][NextScore]_vars

\* the data logger
InitLogger ==
    InitLog /\ InitDet /\ scenario = "steady" /\ IdleScore /\ InitApp /\ InitVideo /\ IdleLifecycle /\ IdleEar
NextLogger ==
    \/ StartSession /\ UNCHANGED <<scVars, detVars, appVars, vidVars, lcVars, earVars>>
    \/ LogDetection /\ UNCHANGED <<scVars, detVars, appVars, vidVars, lcVars, earVars>>
    \/ EndSession /\ UNCHANGED <<scVars, detVars, appVars, vidVars, lcVars, earVars>>
SpecLogger == InitLogger /\ [][NextLogger]_vars

\* the application: video thread and GUI thread interleaved
InitAppSpec ==
    InitApp /\ InitDet /\ scenario = "steady" /\ IdleScore /\ InitLog /\ InitVideo /\ IdleLifecycle /\ IdleEar
NextApp ==
    \/ VideoFeed /\ UNCHANGED <<scVars, detVars, logVars, vidVars, lcVars, earVars>>
    \/ ProcessPredict /\ UNCHANGED <<scVars, detVars, logVars, vidVars, lcVars, earVars>>
    \/ ProcessAppend /\ UNCHANGED <<scVars, detVars, logVars, vidVars, lcVars, earVars>>
    \/ ProcessCheck /\ UNCHANGED <<scVars, detVars, logVars, vidVars, lcVars, earVars>>
    \/ ProcessCall /\ UNCHANGED <<scVars, detVars, logVars, vidVars, lcVars, earVars>>
    \/ LogCheck /\ UNCHANGED <<scVars, detVars, logVars, vidVars, lcVars, earVars>>
    \/ LogAppend /\ UNCHANGED <<scVars, detVars, logVars, vidVars, lcVars, earVars>>
    \/ StartSetFlag /\ UNCHANGED <<scVars, detVars, logVars, vidVars, lcVars, earVars>>
    \/ StartNewSession /\ UNCHANGED <<scVars, detVars, logVars, vidVars, lcVars, earVars>>
    \/ StartClear /\ UNCHANGED <<scVars, detVars, logVars, vidVars, lcVars, earVars>>
    \/ StopClearFlag /\ UNCHANGED <<scVars, detVars, logVars, vidVars, lcVars, earVars>>
    \/ StopCheck /\ UNCHANGED <<scVars, detVars, logVars, vidVars, lcVars, earVars>>
    \/ EndCheck /\ UNCHANGED <<scVars, detVars, logVars, vidVars, lcVars, earVars>>
    \/ EndSelect /\ UNCHANGED <<scVars, detVars, logVars, vidVars, lcVars, earVars>>
    \/ EndSummary /\ UNCHANGED <<scVars, detVars, logVars, vidVars, lcVars, earVars>>
    \/ EndWrite /\ UNCHANGED <<scVars, detVars, logVars, vidVars, lcVars, earVars>>
    \/ EndDelete /\ UNCHANGED <<scVars, detVars, logVars, vidVars, lcVars, earVars>>
    \/ StopReset /\ UNCHANGED <<scVars, detVars, logVars, vidVars, lcVars, earVars>>
SpecApp == InitAppSpec /\ [][NextApp]_vars


\* the video processor: capture thread, caller and consumer interleaved
InitVideoSpec ==
    /\ InitVideo /\ InitDet /\ scenario = "steady" /\ IdleScore /\ InitLog
    /\ InitApp /\ IdleLifecycle /\ IdleEar
CaptureStep == CaptureTest \/ CaptureRead \/ CaptureLock \/ CapturePublish
NextVideo ==
    \/ StartCapture /\ UNCHANGED <<scVars, detVars, logVars, appVars, lcVars, earVars>>
    \/ CaptureTest /\ UNCHANGED <<scVars, detVars, logVars, appVars, lcVars, earVars>>
    \/ CaptureRead /\ UNCHANGED <<scVars, detVars, logVars, appVars, lcVars, earVars>>
    \/ CaptureLock /\ UNCHANGED <<scVars, detVars, logVars, appVars, lcVars, earVars>>
    \/ CapturePublish /\ UNCHANGED <<scVars, detVars, logVars, appVars, lcVars, earVars>>
    \/ StopClearRunning /\ UNCHANGED <<scVars, detVars, logVars, appVars, lcVars, earVars>>
    \/ StopJoin /\ UNCHANGED <<scVars, detVars, logVars, appVars, lcVars, earVars>>
    \/ StopRelease /\ UNCHANGED <<scVars, detVars, logVars, appVars, lcVars, earVars>>
    \/ GetLock /\ UNCHANGED <<scVars, detVars, logVars, appVars, lcVars, earVars>>
    \/ GetCopy /\ UNCHANGED <<scVars, detVars, logVars, appVars, lcVars, earVars>>
    \/ DrawOnFrame /\ UNCHANGED <<scVars, detVars, logVars, appVars, lcVars, earVars>>
SpecVideo == InitVideoSpec /\ [][NextVideo]_vars

\* the same under a fair scheduler: a thread that can take a step of the
\* capture loop, or leave get_current_frame, eventually does
SpecVideoFair ==
    /\ SpecVideo
    /\ WF_vars(CaptureStep /\ UNCHANGED <<scVars, detVars, logVars, appVars, lcVars, earVars>>)
    /\ WF_vars(GetCopy /\ UNCHANGED <<scVars, detVars, logVars, appVars, lcVars, earVars>>)

\* the video processor under any sequence of start and stop calls
InitLifecycleSpec ==
    /\ InitLifecycle /\ InitVideo /\ InitDet /\ scenario = "steady" /\ IdleScore
    /\ InitLog /\ InitApp /\ IdleEar
NextLifecycle ==
    \/ LcStartCapture /\ UNCHANGED <<scVars, detVars, logVars, appVars, vidVars, earVars>>
    \/ (\E t \in DOMAIN loops : LcLoopTest(t))
          /\ UNCHANGED <<scVars, detVars, logVars, appVars, vidVars, earVars>>
    \/ (\E t \in DOMAIN loops : LcLoopRead(t))
          /\ UNCHANGED <<scVars, detVars, logVars, appVars, vidVars, earVars>>
    \/ LcStopClearRunning /\ UNCHANGED <<scVars, detVars, logVars, appVars, vidVars, earVars>>
    \/ LcStopJoin /\ UNCHANGED <<scVars, detVars, logVars, appVars, vidVars, earVars>>
    \/ LcStopRelease /\ UNCHANGED <<scVars, detVars, logVars, appVars, vidVars, earVars>>
SpecLifecycle == InitLifecycleSpec /\ [][NextLifecycle]_vars

\* _calculate_ear on any eye
InitEarSpec ==
    /\ InitEar /\ InitDet /\ scenario = "steady" /\ IdleScore /\ InitLog
    /\ InitApp /\ InitVideo /\ IdleLifecycle
NextEar ==
    CalculateEar
      /\ UNCHANGED <<scVars, detVars, logVars, appVars, vidVars, lcVars>>
SpecEar == InitEarSpec /\ [][NextEar]_vars

----------------------------------------------------------------------------
(* Properties *)

\* the ladders as the specification states them, in hundredths
LadderBlink(b) ==
    IF b < 8 THEN 25 ELSE IF b < 12 THEN 10 ELSE IF b > 25 THEN 15 ELSE 0
LadderStability(g) ==
    IF g.num > 2000 * g.den THEN 30 ELSE IF g.num > 1000 * g.den THEN 15 ELSE 0
LadderChanges(d) ==
    IF d > 80 THEN 25 ELSE IF d > 50 THEN 10 ELSE 0
LadderPitch(p) ==
    IF p < -150 THEN 15 ELSE IF p < -80 THEN 5 ELSE 0
LadderEar(e) ==
    IF e < 150 THEN 15 ELSE IF e < 200 THEN 5 ELSE 0
StatedRuleScore(b, g, d, p, e) ==
    LET t == LadderBlink(b) + LadderStability(g) + LadderChanges(d)
             + LadderPitch(p) + LadderEar(e)
    IN  IF t > 100 THEN 100 ELSE t
StatedBasicScore(p, e) ==
    LET t == (IF e < 150 THEN 30 ELSE IF e < 200 THEN 10 ELSE 0)
             + (IF p < -150 THEN 20 ELSE 0)
    IN  IF t > 100 THEN 100 ELSE t

\* C1: whatever the inputs and the mode (rule-based, basic, no face), the
\* score returned by predict_reading_difficulty lies in [0, 1].
C1_ScoreInUnitInterval ==
    /\ sc_result.score >= 0
    /\ sc_result.score <= 100

\* C1 witness: a rule-based score whose ladder sum exceeds 1 and is capped
C1_Witness ==
    /\ sc_result.mode = "rule"
    /\ sc_input.blink_rate = 7
    /\ sc_input.gaze_stability_x = Frac(4001, 2)
    /\ sc_input.gaze_direction_changes = 81
    /\ sc_input.pitch = -151
    /\ sc_input.avg_ear = 149
    /\ sc_result.score = 100

\* C2: in rule-based mode the score is min(1, b + g + d + p + e) with the five
\* ladders of the specification, all comparisons strict.
C2_RuleBasedLadder ==
    sc_result.mode = "rule" =>
        sc_result.score =
            StatedRuleScore(sc_input.blink_rate, sc_input.gaze_stability_x,
                            sc_input.gaze_direction_changes, sc_input.pitch,
                            sc_input.avg_ear)

\* C2 witness: every input exactly on a threshold
C2_Witness ==
    /\ sc_result.mode = "rule"
    /\ sc_input.blink_rate = 8
    /\ sc_input.gaze_stability_x = Frac(2000, 1)
    /\ sc_input.gaze_direction_changes = 80
    /\ sc_input.pitch = -150
    /\ sc_input.avg_ear = 150
    /\ sc_result.score = 45

\* C3: in basic mode the score is min(1, e + p) with e from avg_ear (0.3 below
\* 0.15, 0.1 below 0.20) and p = 0.2 for pitch below -15; nothing else counts.
C3_BasicLadder ==
    sc_result.mode = "basic" =>
        sc_result.score = StatedBasicScore(sc_input.pitch, sc_input.avg_ear)

\* C3 witness: basic mode with closed eyes, a pitch between the two rule-based
\* thresholds, and values of the other features that would score in rule mode
C3_Witness ==
    /\ sc_result.mode = "basic"
    /\ sc_input.avg_ear = 149
    /\ sc_input.pitch = -81
    /\ sc_input.blink_rate = 0
    /\ sc_input.gaze_direction_changes = 81
    /\ sc_result.score = 30

\* C4: after a call on a face frame, temporal metrics are present and the
\* frame was scored by the rule-based ladder exactly when the history (the
\* frame included) holds at least 30 samples; otherwise the temporal metrics
\* are empty and the score is the basic-mode score of the frame.
C4_ModeByHistoryLength ==
    (lastOp = "predict" /\ lastFrame.face) =>
        /\ out.temporal.present <=> Len(feature_history) >= 30
        /\ out.mode = (IF Len(feature_history) >= 30 THEN "rule" ELSE "basic")
        /\ Len(feature_history) >= 30 =>
              out.score =
                  StatedRuleScore(out.temporal.blink_rate,
                                  out.temporal.gaze_stability_x,
                                  out.temporal.gaze_direction_changes,
                                  out.current.pitch, out.current.avg_ear)
        /\ Len(feature_history) < 30 =>
              out.score = StatedBasicScore(out.current.pitch, out.current.avg_ear)

\* C4 witness: the 30th face frame, scored differently by the two modes
C4_Witness ==
    /\ lastOp = "predict"
    /\ lastFrame.face
    /\ Len(feature_history) = 30
    /\ out.temporal.present
    /\ out.mode = "rule"
    /\ out.score # StatedBasicScore(out.current.pitch, out.current.avg_ear)

\* C5: the history never holds more than 300 entries and is always the most
\* recent min(n, 300) pushed vectors in push order.
C5_HistoryIsLast300 ==
    LET n == Len(pushed)
        m == IF n < 300 THEN n ELSE 300
    IN  /\ Len(feature_history) <= 300
        /\ Len(feature_history) = m
        /\ \A j \in 1..m : feature_history[j] = pushed[n - m + j]

\* C5 witness: 301 vectors pushed, the first (distinct from the second) gone
C5_Witness ==
    /\ Len(pushed) = 301
    /\ Len(feature_history) = 300
    /\ pushed[1] # pushed[2]
    /\ feature_history[1] = pushed[2]
    /\ feature_history[300] = pushed[301]

\* C6: a call on a frame without a face returns score 0 with the no-detection
\* marker and leaves the feature history as it was.
C6_NoFaceLeavesHistory ==
    [][(lastOp' = "predict" /\ ~lastFrame'.face) =>
          /\ feature_history' = feature_history
          /\ out'.score = 0
          /\ out'.error]_vars

\* C6 witness: a no-face call made while the history already drives the
\* rule-based mode
C6_Witness ==
    /\ lastOp = "predict"
    /\ ~lastFrame.face
    /\ out.error
    /\ out.score = 0
    /\ Len(feature_history) >= 30

RECURSIVE SeqSum(_)
SeqSum(s) == IF s = << >> THEN 0 ELSE Head(s) + SeqSum(Tail(s))

\* the record's summary is that of the score sequence sc
SummaryOf(rec, sc) ==
    LET n == Len(sc)
    IN  /\ rec.total_detections = n
        /\ Len(rec.detections) = n
        /\ \A i \in 1..n : rec.detections[i].difficulty_score = sc[i]
        /\ n = 0 => /\ rec.avg_difficulty_score.num = 0
                    /\ rec.max_difficulty_score = 0
        /\ n > 0 => /\ rec.avg_difficulty_score.num * n
                          = SeqSum(sc) * rec.avg_difficulty_score.den
                    /\ \A i \in 1..n : rec.max_difficulty_score >= sc[i]
                    /\ \E i \in 1..n : rec.max_difficulty_score = sc[i]

LoggedScores == [i \in 1..Len(lastCall.logged) |-> lastCall.logged[i].difficulty_score]
SuppliedScores ==
    [i \in 1..Len(lastCall.supplied) |->
        IF lastCall.supplied[i].has_score
        THEN lastCall.supplied[i].difficulty_score ELSE 0]

\* C7: a session ended without a replacement history after N log_detection
\* calls is finalized with total_detections = N, the mean and the maximum of
\* the N logged scores (both 0 for N = 0) and the detections in logging order.
C7_SummaryOfLogged ==
    (lastCall.op = "end" /\ lastCall.outcome = "ok" /\ ~lastCall.given) =>
        /\ SummaryOf(lastCall.record, LoggedScores)
        /\ lastCall.written =>
              session_files[lastCall.id] = <<lastCall.record>>

\* C7 witness: two different scores logged, then the session ended
C7_Witness ==
    /\ lastCall.op = "end"
    /\ lastCall.outcome = "ok"
    /\ ~lastCall.given
    /\ LoggedScores = <<70, 20>>
    /\ lastCall.record.total_detections = 2
    /\ lastCall.record.avg_difficulty_score = Frac(90, 2)
    /\ lastCall.record.max_difficulty_score = 70

\* C8 as stated: whenever a history is supplied to end_session, whatever its
\* length, the record is built from the supplied history only.
C8_AnySuppliedSupersedes ==
    (lastCall.op = "end" /\ lastCall.outcome = "ok" /\ lastCall.given) =>
        SummaryOf(lastCall.record, SuppliedScores)

\* C8 amended: a supplied history that is not empty supersedes the logged
\* records (detections and summary come from it alone); an empty supplied
\* history is treated like an absent one and the logged records are used.
C8_NonEmptySuppliedSupersedes ==
    (lastCall.op = "end" /\ lastCall.outcome = "ok" /\ lastCall.given) =>
        IF Len(lastCall.supplied) > 0
        THEN SummaryOf(lastCall.record, SuppliedScores)
        ELSE SummaryOf(lastCall.record, LoggedScores)

\* C8 witness: two records logged, then the session ended with a different
\* two-record history
C8_Witness ==
    /\ lastCall.op = "end"
    /\ lastCall.outcome = "ok"
    /\ lastCall.given
    /\ LoggedScores = <<20, 70>>
    /\ SuppliedScores = <<90, 0>>
    /\ lastCall.record.total_detections = 2
    /\ lastCall.record.max_difficulty_score = 90

\* C9 as stated: an ended session is no longer active and exactly one record
\* of it has been written.
C9_WrittenExactlyOnce ==
    \A id \in ended :
        /\ id \notin DOMAIN current_sessions
        /\ Len(session_files[id]) = 1

\* C9 amended: an ended session is no longer active; its record write was
\* attempted exactly once, leaving one record when the write succeeded and none
\* when it failed; a later log_detection or end_session on its id is refused,
\* so the session is neither reopened nor appended to nor written again.
C9_SingleUse ==
    /\ \A id \in ended :
          /\ id \notin DOMAIN current_sessions
          /\ write_attempts[id] = 1
          /\ Len(session_files[id]) <= 1
    /\ (lastCall.op = "log" /\ lastCall.id \in ended) =>
          lastCall.outcome = "reported"
    /\ (lastCall.op = "end" /\ lastCall.id \in ended /\ lastCall.outcome = "ok") =>
          Len(session_files[lastCall.id]) = (IF lastCall.written THEN 1 ELSE 0)

\* C9 witness: end_session called again on a session that was ended and saved
C9_Witness ==
    /\ lastCall.op = "end"
    /\ lastCall.id \in ended
    /\ lastCall.outcome = "reported"
    /\ Len(session_files[lastCall.id]) = 1
    /\ write_attempts[lastCall.id] = 1

\* C10: log_detection or end_session on an id that is not active reports the
\* problem and returns: nothing is raised, nothing is written, and the active
\* sessions stay as they were.
C10_UnknownIdIsNoOp ==
    [][(lastCall'.op \in {"log", "end"}
          /\ lastCall'.id \notin DOMAIN current_sessions) =>
            /\ lastCall'.outcome = "reported"
            /\ current_sessions' = current_sessions
            /\ session_files' = session_files
            /\ write_attempts' = write_attempts]_vars

\* C10 witness: end_session on an unknown id while another session is active
\* and holds detections
C10_Witness ==
    /\ lastCall.op = "end"
    /\ lastCall.outcome = "reported"
    /\ lastCall.id \notin ended
    /\ \E id \in DOMAIN current_sessions :
          Len(current_sessions[id].detections) > 0

\* C11 (as stated): log_detection and end_session for one session id are
\* serialized: the video thread is never about to append to a session's
\* detections (past the membership test of log_detection) while the GUI
\* thread is inside end_session for that session.
C11_LogEndSerialized ==
    ~(vpc = "log_append" /\ gpc \in EndSteps /\ g_sid = v_sid)

LoopAlive == cpc \in {"test", "read", "lock", "publish"}

\* C12: the counter of _capture_loop is the number of failed (or raising)
\* reads in a row, a successful read resetting it to 0; it stays in 0..5, the
\* loop runs on while fewer than 5 reads in a row have failed and it ends on
\* failures exactly with 5 of them.
C12_ConsecutiveFailures ==
    /\ consecutive_failures \in 0..5
    /\ consecutive_failures = failed_in_a_row
    /\ LoopAlive => failed_in_a_row < 5
    /\ exit_reason = "failures" => cpc = "done" /\ failed_in_a_row = 5
    /\ exit_reason = "condition" => failed_in_a_row < 5

\* C12 witness: failed reads, a successful read that reset the counter, then
\* five failed reads in a row
C12_Witness ==
    /\ exit_reason = "failures"
    /\ was_reset
    /\ consecutive_failures = 5

\* C13 (as stated): once the loop has ended on 5 failures in a row, the
\* capture is released and the processor does not report the camera as
\* available.
C13_FailureExitReleases ==
    (cpc = "done" /\ exit_reason = "failures") =>
        (cap = "none" /\ ~is_camera_available)

Monotone(s) == \A i, j \in 1..Len(s) : i <= j => s[i] <= s[j]

\* C14: the store is one slot holding the frame published last; it is
\* written and read only with the frame lock held, by one thread at a time;
\* a read returns the frame published last, so the frames handed to the
\* consumer never go back in time.
C14_SingleSlotStore ==
    /\ [](/\ (cpc = "publish") = (frame_lock = "capture")
          /\ (upc = "locked") = (frame_lock = "consumer")
          /\ current_frame.frame =
                IF cpc \in {"lock", "publish"} THEN processed_frame - 1
                ELSE processed_frame
          /\ Monotone(seen))
    /\ [][/\ current_frame'.frame # current_frame.frame =>
                (frame_lock = "capture" /\ current_frame'.frame = processed_frame)
          /\ seen' # seen =>
                (/\ frame_lock = "consumer"
                 /\ seen' = Append(seen, current_frame.frame)
                 /\ got'.frame = current_frame.frame)]_vars

\* C14 witness: frame 1 was overwritten unread and frame 2 was handed out twice
C14_Witness ==
    /\ current_frame.frame = 2
    /\ seen = <<2, 2>>

\* C15: get_current_frame returns None exactly when nothing was published,
\* otherwise a copy (drawing on it leaves the store untouched); once it holds
\* the lock it returns, whether or not a new frame arrived or the loop runs.
C15_CopyOrNone ==
    /\ [](/\ ~current_frame.dirty
          /\ ~got.alias
          /\ upc = "locked" => ENABLED GetCopy)
    /\ [][seen' # seen =>
            /\ (got'.frame = 0) = (current_frame.frame = 0)
            /\ got'.frame = current_frame.frame]_vars

\* C15 witness: the loop has ended, the same frame was handed out twice and
\* drawn on, and the store still holds the clean frame
C15_Witness ==
    /\ cpc = "done"
    /\ seen = <<1, 1>>
    /\ got.dirty
    /\ current_frame = [frame |-> 1, dirty |-> FALSE]

\* C16: after stop_capture has cleared the running flag the loop publishes at
\* most the frame of the iteration in flight, ends at its next evaluation of
\* the loop condition, and does end; stop_capture gets past its join whether
\* or not the loop has ended.
C16_CooperativeStop ==
    /\ [](/\ after_stop <= 1
          /\ mpc = "join" => ENABLED StopJoin
          /\ mpc = "release" => ENABLED StopRelease)
    /\ [][(cpc = "test" /\ cpc' # cpc /\ ~is_running) => cpc' = "done"]_vars
    /\ (~is_running /\ LoopAlive) ~> (cpc = "done")

\* C16 witness: stop_capture has returned after a join that timed out, the
\* loop published the frame it had in flight and has not ended yet
C16_Witness ==
    /\ mpc = "idle"
    /\ ~is_running
    /\ join_timed_out
    /\ after_stop = 1
    /\ LoopAlive

\* the history window of the last call and its columns
Window == LastK(feature_history, 300)
WindowEar == [i \in 1..Len(Window) |-> Window[i].avg_ear]
WindowGaze == [i \in 1..Len(Window) |-> Window[i].gaze_x]

\* the last call scored a face frame with temporal features
TemporalReported ==
    lastOp = "predict" /\ lastFrame.face /\ out.temporal.present

\* adjacent pairs of the window where the EAR goes from not below 0.2 to below
Crossings(ear) ==
    Cardinality({i \in 1..(Len(ear) - 1) : ear[i] >= 200 /\ ear[i + 1] < 200})

\* C17: blink_rate is twice the number of adjacent pairs of the window in
\* which avg_ear goes from not below 0.2 to below 0.2; two crossings give 4.
C17_BlinkRateTwiceCrossings ==
    TemporalReported =>
        /\ out.temporal.blink_rate = 2 * Crossings(WindowEar)
        /\ Crossings(WindowEar) = 2 => out.temporal.blink_rate = 4

\* C17 witness: a window in which the EAR crosses below 0.2 exactly twice
C17_Witness ==
    /\ TemporalReported
    /\ Crossings(WindowEar) = 2
    /\ out.temporal.blink_rate = 4

Deltas(x) == [i \in 1..(Len(x) - 1) |-> x[i + 1] - x[i]]
IsNonZero(d) == d # 0

\* sign reversals of a delta sequence: adjacent deltas of opposite sign
AdjacentReversals(d) ==
    Cardinality({i \in 1..(Len(d) - 1) : d[i] * d[i + 1] < 0})

\* C18 (as stated): gaze_direction_changes is the number of sign reversals of
\* the gaze-x deltas of the window, zero deltas included: either the number
\* of adjacent deltas of opposite sign, or that number after the zero deltas
\* are left out.
C18_CountsSignReversals ==
    TemporalReported =>
        \/ out.temporal.gaze_direction_changes
              = AdjacentReversals(Deltas(WindowGaze))
        \/ out.temporal.gaze_direction_changes
              = AdjacentReversals(SelectSeq(Deltas(WindowGaze), IsNonZero))

\* C19: from an empty history, the 35th face frame of the stream with
\* constant gaze, level head and EAR 0.35 except for two dips to 0.18 reports
\* blink_rate 4, gaze variance 0, no direction change and the score 0.25.
C19_SteadyScenario ==
    (scenario = "steady" /\ lastOp = "predict" /\ lastFrame.face
        /\ Len(pushed) = 35) =>
        /\ out.mode = "rule"
        /\ out.temporal.blink_rate = 4
        /\ out.temporal.gaze_stability_x.num = 0
        /\ out.temporal.gaze_direction_changes = 0
        /\ out.score = 25

\* C19 witness: the 35th frame of that stream has been scored
C19_Witness ==
    /\ scenario = "steady"
    /\ lastOp = "predict"
    /\ lastFrame.face
    /\ Len(pushed) = 35
    /\ Len(feature_history) = 35
    /\ lastFrame.avg_ear = 350
    /\ Crossings(WindowEar) = 2
    /\ out.score = 25

\* C20: when the write of the record fails, end_session reports it and
\* returns normally; the finalized session data (detections and summary) are
\* what they are for a successful write, and the session is ended.
C20_FailedWriteKeepsSummary ==
    (lastCall.op = "end" /\ lastCall.outcome # "reported" /\ ~lastCall.written) =>
        /\ lastCall.outcome = "ok"
        /\ SummaryOf(lastCall.record,
                     IF lastCall.given /\ Len(lastCall.supplied) > 0
                     THEN SuppliedScores ELSE LoggedScores)
        /\ lastCall.record.session_id = lastCall.id
        /\ lastCall.id \in ended
        /\ lastCall.id \notin DOMAIN current_sessions
        /\ session_files[lastCall.id] = << >>

\* C20 witness: two scores logged, then the session ended with a failing write
C20_Witness ==
    /\ lastCall.op = "end"
    /\ lastCall.outcome = "ok"
    /\ ~lastCall.written
    /\ ~lastCall.given
    /\ LoggedScores = <<20, 70>>
    /\ lastCall.record.total_detections = 2
    /\ lastCall.record.avg_difficulty_score = Frac(90, 2)
    /\ session_files[lastCall.id] = << >>

\* the device start_capture ends up with, as the specification states it:
\* the configured id, else 0, else 1, else 2; -1 when none of them opens
StatedDevice(cam, devs) ==
    IF cam \in devs THEN cam
    ELSE IF 0 \in devs THEN 0
    ELSE IF 1 \in devs THEN 1
    ELSE IF 2 \in devs THEN 2
    ELSE -1

\* C21: start_capture uses the first of configured id, 0, 1, 2 that opens and
\* succeeds when one opens and delivers a test frame: then that capture is
\* held, the flag is set and one loop is started.  Otherwise it fails: no loop
\* is started, the running flag is left as it was and no capture is held or
\* left open.
C21_StartFallback ==
    [][last_start'.n # last_start.n =>
        LET d == StatedDevice(camera_id, devices)
        IN  /\ last_start'.ok = (d # -1 /\ last_start'.test_ok)
            /\ last_start'.ok =>
                  /\ lc_cap' # 0
                  /\ handles'[lc_cap'] = [device |-> d, open |-> TRUE]
                  /\ camera_id' = d
                  /\ lc_running'
                  /\ Len(loops') = Len(loops) + 1
            /\ ~last_start'.ok =>
                  /\ loops' = loops
                  /\ lc_running' = lc_running
                  /\ lc_cap' = 0
                  /\ \A h \in DOMAIN handles' : ~handles'[h].open]_vars

\* C21 witness: the configured camera 3 and camera 0 do not open, camera 1
\* opens but delivers no test frame: the first start_capture has failed
C21_Witness ==
    /\ last_start.n = 1
    /\ last_start.configured = 3
    /\ devices = {1, 2}
    /\ last_start.device = 1
    /\ ~last_start.ok
    /\ ~lc_running
    /\ loops = << >>
    /\ lc_cap = 0

LiveLoops == {t \in DOMAIN loops : loops[t].pc # "done"}
OpenHandles == {h \in DOMAIN handles : handles[h].open}

\* C25 (as stated): whatever start_capture and stop_capture calls were made,
\* at most one capture loop is running and at most one capture is open.
C25_AtMostOneLoopOneHandle ==
    /\ Cardinality(LiveLoops) <= 1
    /\ Cardinality(OpenHandles) <= 1

\* C24 (as stated): whenever the capture loop executes self.cap.read(), the
\* capture is one that stop_capture has not released or cleared.
C24_NoReadAfterRelease ==
    [][(cpc = "read" /\ cpc' # cpc) => cap = "open"]_vars

\* C22: a failed eye computation puts the neutral defaults into the frame's
\* features (EAR 0.3, gaze 0), a failed pose solve puts pitch 0; the call
\* still returns a score in [0, 1] without an error marker, the features
\* enter the history, and a frame whose computations succeed carries its
\* measured values whatever happened to the frames before it.
C22_FailuresAbsorbed ==
    (lastOp = "predict" /\ lastFrame.face) =>
        /\ out.current.avg_ear = (IF lastFrame.eye_ok THEN lastFrame.avg_ear ELSE 300)
        /\ out.current.gaze_x = (IF lastFrame.eye_ok THEN lastFrame.gaze_x ELSE 0)
        /\ out.current.pitch = (IF lastFrame.pose_ok THEN lastFrame.pitch ELSE 0)
        /\ ~out.error
        /\ out.score \in 0..100
        /\ feature_history # << >>
        /\ feature_history[Len(feature_history)] = out.current

\* C22 witness: the 40th frame of the degraded stream, on which both the eye
\* computation and the pose solve fail, scored in rule-based mode
C22_Witness ==
    /\ scenario = "degraded"
    /\ lastOp = "predict"
    /\ lastFrame.face /\ ~lastFrame.eye_ok /\ ~lastFrame.pose_ok
    /\ Len(pushed) = 40
    /\ out.mode = "rule"
    /\ out.current = [avg_ear |-> 300, gaze_x |-> 0, pitch |-> 0]

\* squared distance of two points
SqDist(p, q) ==
    (p[1] - q[1]) * (p[1] - q[1]) + (p[2] - q[2]) * (p[2] - q[2])

\* C23: the value _calculate_ear returns lies in [0, 1]; it is the ratio
\* (A + B) / (2 C) where that lies in [0, 1] and 1 where the ratio exceeds 1;
\* it is exactly 0.3 when the horizontal distance C is zero.
C23_EarInUnitInterval ==
    ear_ret.done =>
        /\ ear_ret.value.den > 0
        /\ 0 <= ear_ret.value.num /\ ear_ret.value.num <= ear_ret.value.den
        /\ Len(eye_points) = 6 =>
              \E A, B, C \in 0..(2 * MaxCoord) :
                  /\ A * A = SqDist(eye_points[2], eye_points[6])
                  /\ B * B = SqDist(eye_points[3], eye_points[5])
                  /\ C * C = SqDist(eye_points[1], eye_points[4])
                  /\ C = 0 => ear_ret.value = Frac(3, 10)
                  /\ (C > 0 /\ A + B <= 2 * C) =>
                        ear_ret.value.num * 2 * C = (A + B) * ear_ret.value.den
                  /\ (C > 0 /\ A + B > 2 * C) =>
                        ear_ret.value.num = ear_ret.value.den

\* C23 witness: an eye of zero width and non-zero height
C23_Witness ==
    /\ ear_ret.done
    /\ Len(eye_points) = 6
    /\ eye_points[1] = eye_points[4]
    /\ eye_points[2] # eye_points[6]
    /\ ear_ret.value = Frac(3, 10)

\* C26: when stop_detection has handed detection_history to end_session and
\* the video thread is not inside process_frame, the history holds exactly
\* the records appended through log_detection for that session id: the same
\* records in the same order.
C26_HistoryMatchesLogged ==
    (gpc = "end_select" /\ vpc = "feed" /\ g_sid \in DOMAIN app_sessions) =>
        detection_history = app_sessions[g_sid]

\* C27: between calls of reset() the length of the feature history never
\* decreases, so a face frame that meets a history of 30 or more entries is
\* scored in rule-based mode; reset() empties the history, and of the face
\* frames that follow it the first 29 are scored in basic mode and every one
\* from the 30th on in rule-based mode.  (pushed holds the face frames since
\* the last reset.)
C27_HistoryGrowsUntilReset ==
    /\ [][lastOp' # "reset" =>
              Len(feature_history') >= Len(feature_history)]_vars
    /\ [][(lastOp' = "predict" /\ lastFrame'.face
              /\ pushed' # pushed /\ Len(feature_history) >= 30) =>
              out'.mode = "rule"]_vars
    /\ [][(lastOp' = "reset" /\ lastOp' # lastOp) =>
              feature_history' = << >>]_vars
    /\ [](lastOp = "reset" => feature_history = << >>)
    /\ []((lastOp = "predict" /\ lastFrame.face) =>
              /\ Len(pushed) < 30 => out.mode = "basic"
              /\ Len(pushed) >= 30 => out.mode = "rule")

\* C27 witness: reset() has just been called on a detector whose last frame
\* was scored in rule-based mode
C27_Witness ==
    /\ lastOp = "reset"
    /\ lastFrame.face
    /\ out.mode = "rule"
    /\ feature_history = << >>
    /\ pushed = << >>

\* C28: the first face frame of every detection session of the application
\* meets an empty feature history, so it is scored in basic mode and the
\* history holds that frame alone.
C28_SessionStartsEmpty ==
    (det_session = "first" /\ lastOp = "predict" /\ lastFrame.face) =>
        /\ out.mode = "basic"
        /\ Len(feature_history) = 1

====
